---------------------------- MODULE Spec2Model ----------------------------
(***************************************************************************)
(* Model of src/main.py: the CS2 item price scraper.                       *)
(*                                                                         *)
(* A Python string is a sequence of one-character strings.  Characters     *)
(* outside ASCII are written by their code point ("U+2122" is the          *)
(* trademark sign).  Amounts of money are held in centavos (1/100 peso);   *)
(* the quotes of the model carry at most two fraction digits, so float     *)
(* rounding plays no part.                                                 *)
(***************************************************************************)
EXTENDS Integers, Sequences, FiniteSets, TLC

(***************************************************************************)
(* Bounds and program constants                                            *)
(***************************************************************************)
\* longest message, in lines, whose lines and remote replies are enumerated
MaxLines == 2

\* get_price(item_name, appid=730, retries=3)
Retries == 3

\* "if i % 20 == 0 or i == len(items)"
ProgressEvery == 20

\* max_chunk = 3500
MaxChunk == 3500

(***************************************************************************)
(* Strings                                                                 *)
(***************************************************************************)
\* characters str.strip() removes (str.isspace()); U+00A0 is one of them
Whitespace == {" ", "U+00A0", "\t"}

RECURSIVE LStrip(_)
LStrip(s) ==
    IF s # <<>> /\ Head(s) \in Whitespace THEN LStrip(Tail(s)) ELSE s

RECURSIVE RStrip(_)
RStrip(s) ==
    IF s # <<>> /\ s[Len(s)] \in Whitespace
    THEN RStrip(SubSeq(s, 1, Len(s) - 1))
    ELSE s

\* str.strip()
Strip(s) == RStrip(LStrip(s))

\* "sep".join(parts)
RECURSIVE Join(_, _)
Join(sep, parts) ==
    IF parts = <<>> THEN <<>>
    ELSE IF Len(parts) = 1 THEN parts[1]
    ELSE parts[1] \o sep \o Join(sep, Tail(parts))

\* the literal "No price listed"
NoPrice ==
    <<"N", "o", " ", "p", "r", "i", "c", "e", " ", "l", "i", "s", "t", "e", "d">>

(***************************************************************************)
(* clean_item_name                                                         *)
(***************************************************************************)
\* the table as it would be without its entries for the trademark sign,
\* the registered sign and the star
Replacement_KeepMarkers(c) ==
    CASE c = "U+2019" -> <<"'">>
      [] c = "U+2018" -> <<"'">>
      [] c = "U+201C" -> <<"\"">>
      [] c = "U+201D" -> <<"\"">>
      [] c = "U+2013" -> <<"-">>
      [] c = "U+2014" -> <<"-">>
      [] c = "U+00A0" -> <<" ">>
      [] OTHER -> <<c>>

\* the replacements table, applied to one character
Replacement(c) ==
    CASE c = "U+2122" -> <<>>
      [] c = "U+00AE" -> <<>>
      [] c = "U+2605" -> <<>>
      [] c = "U+2019" -> <<"'">>
      [] c = "U+2018" -> <<"'">>
      [] c = "U+201C" -> <<"\"">>
      [] c = "U+201D" -> <<"\"">>
      [] c = "U+2013" -> <<"-">>
      [] c = "U+2014" -> <<"-">>
      [] c = "U+00A0" -> <<" ">>
      [] OTHER -> <<c>>

\* unicodedata.normalize("NFKC", .) on the alphabet of the model: the
\* compatibility mappings of the Unicode character database
NFKC(c) ==
    CASE c = "U+2122" -> <<"T", "M">>
      [] c = "U+00A0" -> <<" ">>
      [] c = "U+FE58" -> <<"U+2014">>
      [] c = "U+FE32" -> <<"U+2013">>
      [] c = "U+FF07" -> <<"'">>
      [] OTHER -> <<c>>

\* lines 31-32: every replacement applied to the whole name
RECURSIVE Replaced(_)
Replaced(s) ==
    IF s = <<>> THEN <<>> ELSE Replacement(Head(s)) \o Replaced(Tail(s))

\* line 34
RECURSIVE Normalized(_)
Normalized(s) ==
    IF s = <<>> THEN <<>> ELSE NFKC(Head(s)) \o Normalized(Tail(s))

clean_item_name(name) == Strip(Normalized(Replaced(name)))

(***************************************************************************)
(* Numeric value of a quote                                                *)
(***************************************************************************)
Digits == {"0", "1", "2", "3", "4", "5", "6", "7", "8", "9"}

DigitVal(c) ==
    CASE c = "0" -> 0 [] c = "1" -> 1 [] c = "2" -> 2 [] c = "3" -> 3
      [] c = "4" -> 4 [] c = "5" -> 5 [] c = "6" -> 6 [] c = "7" -> 7
      [] c = "8" -> 8 [] c = "9" -> 9

\* the replacements as they would be without the thousands separator
StripChar_KeepComma(c) == IF c \in {"U+20B1", "P", " "} THEN <<>> ELSE <<c>>

\* price.replace("U+20B1","").replace("P","").replace(",","").replace(" ","")
StripChar(c) == IF c \in {"U+20B1", "P", ",", " "} THEN <<>> ELSE <<c>>

RECURSIVE Stripped(_)
Stripped(s) ==
    IF s = <<>> THEN <<>> ELSE StripChar(Head(s)) \o Stripped(Tail(s))

\* line 113, with its trailing .strip()
StripCurrency(price) == Strip(Stripped(price))

\* index of the decimal point of p, 0 when it has none
PointAt(p) ==
    IF \E k \in 1..Len(p) : p[k] = "."
    THEN CHOOSE k \in 1..Len(p) : p[k] = "." /\ \A j \in 1..(k - 1) : p[j] # "."
    ELSE 0

\* float(p) accepts p: digits with at most one decimal point and at least
\* one digit (signs, exponents, "inf" and "nan" are outside the alphabet)
FloatOk(p) ==
    /\ p # <<>>
    /\ \A k \in 1..Len(p) : p[k] \in Digits \cup {"."}
    /\ Cardinality({k \in 1..Len(p) : p[k] = "."}) <= 1
    /\ \E k \in 1..Len(p) : p[k] \in Digits

RECURSIVE DigitsVal(_)
DigitsVal(d) ==
    IF d = <<>> THEN 0
    ELSE 10 * DigitsVal(SubSeq(d, 1, Len(d) - 1)) + DigitVal(d[Len(d)])

\* float(p) in centavos, for p that float() accepts
FloatCentavos(p) ==
    LET dot  == PointAt(p)
        whole == IF dot = 0 THEN p ELSE SubSeq(p, 1, dot - 1)
        frac  == IF dot = 0 THEN <<>> ELSE SubSeq(p, dot + 1, Len(p))
        frac2 == SubSeq(frac \o <<"0", "0">>, 1, 2)
    IN  100 * DigitsVal(whole) + DigitsVal(frac2)

\* lines 110-120: the amount the quote adds to total_value
price_num(price) ==
    IF price # NoPrice /\ price # <<>>
    THEN LET p == StripCurrency(price)
         IN  IF FloatOk(p) THEN FloatCentavos(p) ELSE 0
    ELSE 0

(***************************************************************************)
(* The remote endpoint and the message                                     *)
(***************************************************************************)
\* a field of the JSON body: absent, or present with a string value
Absent == [present |-> FALSE, val |-> <<>>]

Field(v) == [present |-> TRUE, val |-> v]

\* "U+20B1 1,234.50" without the space: 1234.50 pesos
PriceA == <<"U+20B1", "1", ",", "2", "3", "4", ".", "5", "0">>

\* "P75": 75 pesos
PriceB == <<"P", "7", "5">>

\* a quote float() rejects
PriceBad == <<"N", "/", "A">>

Fields == {Absent, Field(<<>>), Field(PriceA), Field(PriceB), Field(PriceBad)}

\* what one requests.get can bring back: a transport exception (timeout,
\* connection error), a status other than 200, a 200 whose body is not a
\* JSON object, a 200 whose success flag is false, a 200 with success true
FailureKinds == {"exception", "non200", "malformed", "nosuccess"}

Failure(kind) == [kind |-> kind, lowest |-> Absent, median |-> Absent]

Responses ==
    {Failure(k) : k \in FailureKinds}
        \cup {[kind |-> "ok", lowest |-> l, median |-> m] : l, m \in Fields}

NameA == <<"A", "K">>

\* " *M9(tm)" with the star and the trademark sign, and a leading space
NameB == <<" ", "U+2605", "M", "9", "U+2122">>

BlankLine == <<" ">>

LineSet == {BlankLine, NameA, NameB}

\* the messages whose lines are enumerated
ShortTexts == UNION {[1..n -> LineSet] : n \in 0..MaxLines}

\* messages long enough to reach the progress interval: every line the
\* same name
LongLens == {ProgressEvery, ProgressEvery + 1, 2 * ProgressEvery}

LongTexts == {[k \in 1..n |-> NameA] : n \in LongLens}

\* the replies enumerated for a message: all of them for the short
\* messages, one priced reply for the long ones
RemoteFor(t) ==
    IF Len(t) <= MaxLines THEN Responses
    ELSE {[kind |-> "ok", lowest |-> Field(PriceB), median |-> Absent]}

(***************************************************************************)
(* State                                                                   *)
(***************************************************************************)
VARIABLES
    text,           \* update.message.text, as its lines
    pc,             \* position of scrape_items
    items,          \* the non-blank lines, stripped
    i,              \* loop index, from 1
    attempt,        \* get_price: loop index, from 1
    trace,          \* get_price: requests and sleeps of the current call
    price,          \* value get_price returned
    results,
    success_count,
    fail_count,
    total_value,    \* in centavos
    file,           \* the strings written to output_file; <<>>: no file
    start_idx,
    sent,           \* messages the delivery channel accepted
    nrequests,      \* requests.get calls issued so far
    printed,        \* the last-resort print happened
    paces,          \* time.sleep(2.5) calls of the loop so far
    pending         \* updates the application has not handed to a handler yet

vars ==
    <<text, pc, items, i, attempt, trace, price, results, success_count,
      fail_count, total_value, file, start_idx, sent, nrequests, printed, paces,
      pending>>

batch == <<results, success_count, fail_count, total_value, file>>

fetch == <<attempt, trace, price, nrequests>>

(***************************************************************************)
(* get_price                                                               *)
(***************************************************************************)
Truthy(f) == f.present /\ f.val # <<>>

\* line 55 as it would be without its middle operand
ExtractPrice_NoMedian(resp) ==
    IF Truthy(resp.lowest) THEN resp.lowest.val ELSE NoPrice

\* line 55 as it would be with its first two operands exchanged
ExtractPrice_MedianFirst(resp) ==
    IF Truthy(resp.median) THEN resp.median.val
    ELSE IF Truthy(resp.lowest) THEN resp.lowest.val
    ELSE NoPrice

\* line 55: data.get("lowest_price") or data.get("median_price") or "No price listed"
ExtractPrice(resp) ==
    IF Truthy(resp.lowest) THEN resp.lowest.val
    ELSE IF Truthy(resp.median) THEN resp.median.val
    ELSE NoPrice

\* get_price as it would be if only lowest_price ended the loop
AttemptOutcome_LowestOnly(resp) ==
    IF resp.kind = "ok" /\ Truthy(resp.lowest)
    THEN [ret |-> TRUE, val |-> resp.lowest.val, sleep |-> FALSE, raises |-> FALSE]
    ELSE [ret |-> FALSE, val |-> NoPrice, sleep |-> resp.kind # "ok",
          raises |-> FALSE]

\* lines 49-61: one pass of the loop body on the reply resp: whether it
\* returns, what it returns, whether it sleeps, and whether an exception
\* leaves get_price ("except Exception" takes every one of them)
AttemptOutcome(resp) ==
    CASE resp.kind = "ok" ->
            [ret |-> TRUE, val |-> ExtractPrice(resp), sleep |-> FALSE,
             raises |-> FALSE]
      [] resp.kind = "nosuccess" ->
            [ret |-> FALSE, val |-> NoPrice, sleep |-> FALSE, raises |-> FALSE]
      [] resp.kind = "non200" ->
            [ret |-> FALSE, val |-> NoPrice, sleep |-> TRUE, raises |-> FALSE]
      [] resp.kind \in {"exception", "malformed"} ->
            [ret |-> FALSE, val |-> NoPrice, sleep |-> TRUE, raises |-> FALSE]

\* the loop as it would be over range(1, retries + 2)
LastAttempt_OneMore(a) == a >= Retries + 1

\* line 48: range(1, retries + 1) has no value after a
LastAttempt(a) == a >= Retries

Request(name, resp) == [ev |-> "request", name |-> name, resp |-> resp]

Sleep == [ev |-> "sleep", name |-> <<>>, resp |-> Failure("exception")]

(***************************************************************************)
(* scrape_items                                                            *)
(***************************************************************************)
\* the list as it would be without its "if ln.strip()" filter
RECURSIVE ItemsOf_KeepBlank(_)
ItemsOf_KeepBlank(t) ==
    IF t = <<>> THEN <<>> ELSE <<Strip(Head(t))>> \o ItemsOf_KeepBlank(Tail(t))

\* line 79: [ln.strip() for ln in items_text.splitlines() if ln.strip()]
RECURSIVE ItemsOf(_)
ItemsOf(t) ==
    IF t = <<>> THEN <<>>
    ELSE IF Strip(Head(t)) # <<>> THEN <<Strip(Head(t))>> \o ItemsOf(Tail(t))
    ELSE ItemsOf(Tail(t))

Header ==
    <<"S", "o", "u", "r", "c", "e", " ", "N", "a", "m", "e", "\t",
      "S", "c", "r", "a", "p", "e", "d", " ", "N", "a", "m", "e", "\t",
      "P", "r", "i", "c", "e", " ", "(", "P", "H", "P", ")", "\n">>

\* line 127
ResultLine(src_item, p) == src_item \o <<" ", "U+2192", " ">> \o p

\* line 128
Row(src_item, cleaned, p) ==
    src_item \o <<"\t">> \o cleaned \o <<"\t">> \o p \o <<"\n">>

\* the file as open(output_file, "a") would leave it
Opened_Append(old) == old \o <<Header>>

\* lines 102-103: open(output_file, "w") truncates what the name held
Opened(old) == <<Header>>

\* the quote is one that lines 111-117 turn into a number
Parses(p) == p # NoPrice /\ p # <<>> /\ FloatOk(StripCurrency(p))

\* the counters as they would be with the success count moved into the
\* try block of the numeric parse
Classify_InTry(p) ==
    [success |-> IF Parses(p) THEN 1 ELSE 0, fail |-> IF p = NoPrice THEN 1 ELSE 0]

\* the counters as they would be if the parse decided between them
Classify_ByParse(p) ==
    IF Parses(p) THEN [success |-> 1, fail |-> 0] ELSE [success |-> 0, fail |-> 1]

\* lines 122-125: what the item adds to success_count and fail_count
Classify(p) ==
    IF p # NoPrice THEN [success |-> 1, fail |-> 0]
    ELSE [success |-> 0, fail |-> 1]

\* the test as it would be if it never fired
NoItems_Never(its) == FALSE

\* line 81: "if not items"
NoItems(its) == its = <<>>

\* the condition as it would be without "or i == len(items)"
ProgressDue_IntervalOnly(k, n) == k % ProgressEvery = 0

\* line 131
ProgressDue(k, n) == k % ProgressEvery = 0 \/ k = n

\* the pacing as it would be if only a priced item were followed by it
PaceSleeps_OnSuccess(p) == IF p # NoPrice THEN 1 ELSE 0

\* line 135: the sleeps that follow an item whose quote is p
PaceSleeps(p) == 1

\* a call of the delivery channel as it would be inside a try of its own
\* whose except passes
Channel_Swallow(msg, next) ==
    \E ok \in BOOLEAN :
        IF ok THEN sent' = Append(sent, msg) /\ pc' = next
        ELSE sent' = sent /\ pc' = next

\* a call of the delivery channel (reply_text, delete, send_document):
\* it delivers msg and goes on at next, or raises into the handler's except
Channel(msg, next) ==
    \E ok \in BOOLEAN :
        IF ok THEN sent' = Append(sent, msg) /\ pc' = next
        ELSE sent' = sent /\ pc' = "except"

Init ==
    /\ text \in ShortTexts \cup LongTexts
    /\ pc = "start"
    /\ items = <<>>
    /\ i = 0
    /\ attempt = 1
    /\ trace = <<>>
    /\ price = <<>>
    /\ results = <<>>
    /\ success_count = 0
    /\ fail_count = 0
    /\ total_value = 0
    /\ file = <<>>
    /\ start_idx = 0
    /\ sent = <<>>
    /\ nrequests = 0
    /\ printed = FALSE
    /\ paces = 0
    /\ pending = <<>>

\* lines 78-89
Validate ==
    /\ pc = "start"
    /\ items' = ItemsOf(text)
    /\ IF NoItems(items')
       THEN \E ok \in BOOLEAN :
                IF ok THEN sent' = Append(sent, [type |-> "validation"]) /\ pc' = "done"
                ELSE sent' = sent /\ pc' = "except"
       ELSE Channel([type |-> "loading", n |-> Len(items')], "open")
    /\ UNCHANGED <<text, i, fetch, batch, start_idx, printed, pending, paces>>

\* lines 92-105: the file is created with its header and the loop entered
OpenFile ==
    /\ pc = "open"
    /\ file' = Opened(file)
    /\ results' = <<>>
    /\ success_count' = 0
    /\ fail_count' = 0
    /\ total_value' = 0
    /\ i' = 1
    /\ pc' = "fetch"
    /\ UNCHANGED <<text, items, fetch, start_idx, sent, printed, pending, paces>>

\* lines 106-107 and 48-62: one request of get_price(cleaned) and what
\* follows it up to the next request or the return
Attempt ==
    /\ pc = "fetch"
    /\ \E resp \in RemoteFor(text) :
        LET o == AttemptOutcome(resp)
            req == Request(clean_item_name(items[i]), resp)
        IN  /\ trace' = trace \o <<req>> \o (IF o.sleep THEN <<Sleep>> ELSE <<>>)
            /\ nrequests' = nrequests + 1
            /\ IF o.raises
               THEN price' = price /\ pc' = "except" /\ attempt' = attempt
               ELSE IF o.ret
               THEN price' = o.val /\ pc' = "record" /\ attempt' = attempt
               ELSE IF LastAttempt(attempt)
               THEN price' = NoPrice /\ pc' = "record" /\ attempt' = attempt
               ELSE price' = price /\ pc' = pc /\ attempt' = attempt + 1
    /\ UNCHANGED <<text, items, i, batch, start_idx, sent, printed, pending, paces>>

\* lines 109-128
RecordItem ==
    /\ pc = "record"
    /\ total_value' = total_value + price_num(price)
    /\ success_count' = success_count + Classify(price).success
    /\ fail_count' = fail_count + Classify(price).fail
    /\ results' = Append(results, ResultLine(items[i], price))
    /\ file' = Append(file, Row(items[i], clean_item_name(items[i]), price))
    /\ attempt' = 1
    /\ trace' = <<>>
    /\ pc' = "progress"
    /\ UNCHANGED <<text, items, i, price, start_idx, sent, nrequests, printed,
                   pending, paces>>

\* lines 131-132
Progress ==
    /\ pc = "progress"
    /\ IF ProgressDue(i, Len(items))
       THEN Channel([type |-> "progress", i |-> i, n |-> Len(items)], "pace")
       ELSE sent' = sent /\ pc' = "pace"
    /\ UNCHANGED <<text, items, i, fetch, batch, start_idx, printed, pending, paces>>

\* line 135 and the step of the for loop
Pace ==
    /\ pc = "pace"
    /\ i' = i + 1
    /\ pc' = IF i < Len(items) THEN "fetch" ELSE "delete"
    /\ paces' = paces + PaceSleeps(price)
    /\ UNCHANGED <<text, items, fetch, batch, start_idx, sent, printed, pending>>

\* line 138
DeleteLoading ==
    /\ pc = "delete"
    /\ Channel([type |-> "delete_loading"], "chunks")
    /\ start_idx' = 0
    /\ UNCHANGED <<text, items, i, fetch, batch, printed, pending, paces>>

\* lines 141-145
SendChunk ==
    /\ pc = "chunks"
    /\ LET result_text == Join(<<"\n">>, results)
           stop == IF start_idx + MaxChunk < Len(result_text)
                   THEN start_idx + MaxChunk ELSE Len(result_text)
       IN  IF start_idx < Len(result_text)
           THEN /\ Channel([type |-> "chunk",
                            body |-> SubSeq(result_text, start_idx + 1, stop)],
                           "chunks")
                /\ start_idx' = start_idx + MaxChunk
           ELSE sent' = sent /\ pc' = "summary" /\ start_idx' = start_idx
    /\ UNCHANGED <<text, items, i, fetch, batch, printed, pending, paces>>

\* lines 148-158
Summary ==
    /\ pc = "summary"
    /\ Channel([type |-> "summary", n |-> Len(items), success |-> success_count,
                failed |-> fail_count, total |-> total_value], "document")
    /\ UNCHANGED <<text, items, i, fetch, batch, start_idx, printed, pending, paces>>

\* line 161
SendDocument ==
    /\ pc = "document"
    /\ Channel([type |-> "document", rows |-> file], "done")
    /\ UNCHANGED <<text, items, i, fetch, batch, start_idx, printed, pending, paces>>

\* lines 163-169
Except ==
    /\ pc = "except"
    /\ \E ok \in BOOLEAN :
        IF ok THEN sent' = Append(sent, [type |-> "error"]) /\ printed' = printed
        ELSE sent' = sent /\ printed' = TRUE
    /\ pc' = "done"
    /\ UNCHANGED <<text, items, i, fetch, batch, start_idx, pending, paces>>

Next ==
    \/ Validate
    \/ OpenFile
    \/ Attempt
    \/ RecordItem
    \/ Progress
    \/ Pace
    \/ DeleteLoading
    \/ SendChunk
    \/ Summary
    \/ SendDocument
    \/ Except

Spec == Init /\ [][Next]_vars

(***************************************************************************)
(* main: the application hands the updates to scrape_items                 *)
(***************************************************************************)
\* the messages of one line
OneLineTexts == {t \in ShortTexts : Len(t) = 1}

\* the application as it would be built with concurrent_updates(True): an
\* update is handed over whenever the running handler is at an await
HandlerIdle_Concurrent ==
    pc \in {"done", "open", "progress", "delete", "chunks", "summary", "document"}

\* lines 175-179: the application is built without concurrent_updates, so
\* run_polling hands an update to a handler only when the handler of the
\* update before it has returned
HandlerIdle == pc = "done"

\* lines 177-179 and 75: scrape_items is called for the next update, with
\* fresh locals.  sent, nrequests, paces and printed count from the call.
\* Lines 92-94: output_file is named by the minute, so the name is that of
\* the file of the call before when both fall in one minute, and the name
\* of no file otherwise
NextUpdate ==
    /\ HandlerIdle
    /\ pending # <<>>
    /\ text' = Head(pending)
    /\ pending' = Tail(pending)
    /\ pc' = "start"
    /\ items' = <<>>
    /\ i' = 0
    /\ attempt' = 1
    /\ trace' = <<>>
    /\ price' = <<>>
    /\ results' = <<>>
    /\ success_count' = 0
    /\ fail_count' = 0
    /\ total_value' = 0
    /\ file' \in {file, <<>>}
    /\ start_idx' = 0
    /\ sent' = <<>>
    /\ nrequests' = 0
    /\ printed' = FALSE
    /\ paces' = 0

\* the messages that are followed by a second one
FirstTexts == OneLineTexts \cup {<<NameB, NameA>>}

\* two messages, the second, of one line, waiting
InitRuns ==
    /\ text \in FirstTexts
    /\ pending \in {<<t>> : t \in OneLineTexts}
    /\ pc = "start"
    /\ items = <<>>
    /\ i = 0
    /\ attempt = 1
    /\ trace = <<>>
    /\ price = <<>>
    /\ results = <<>>
    /\ success_count = 0
    /\ fail_count = 0
    /\ total_value = 0
    /\ file = <<>>
    /\ start_idx = 0
    /\ sent = <<>>
    /\ nrequests = 0
    /\ printed = FALSE
    /\ paces = 0

NextRuns == Next \/ NextUpdate

SpecRuns == InitRuns /\ [][NextRuns]_vars

\* the for loop of scrape_items has run to its end
LoopFinished == items # <<>> /\ i > Len(items)

\* the requests of the current get_price call, in order
Requests == SelectSeq(trace, LAMBDA e : e.ev = "request")

TypeOK ==
    /\ pc \in {"start", "open", "fetch", "record", "progress", "pace", "delete",
               "chunks", "summary", "document", "except", "done"}
    /\ i \in 0..(Len(items) + 1)
    /\ attempt \in 1..Retries
    /\ Len(results) <= Len(items)

(***************************************************************************)
(* Properties of get_price                                                 *)
(***************************************************************************)
\* the reply is a failed attempt
FailedReply(r) == r.kind \in FailureKinds

\* the price strings a logically successful reply carries
PricesIn(r) ==
    {f.val : f \in {g \in {r.lowest, r.median} : g.present /\ g.val # <<>>}}

\* the reply is logically successful and carries a price
PricedReply(r) == r.kind = "ok" /\ PricesIn(r) # {}

\* C1: when get_price returns after k < Retries failed attempts followed by
\* a 200 reply with success true and a price, it returns a price of that
\* reply and has issued exactly k + 1 requests.
C1_RetryThenPrice ==
    pc = "record" =>
        \A k \in 0..(Retries - 1) :
            ( /\ Len(Requests) > k
              /\ \A j \in 1..k : FailedReply(Requests[j].resp)
              /\ PricedReply(Requests[k + 1].resp) )
            => /\ price \in PricesIn(Requests[k + 1].resp)
               /\ Len(Requests) = k + 1

\* get_price returned a price on its third request, after a transport
\* exception and a logical failure
C1_Witness ==
    /\ pc = "record"
    /\ Len(Requests) = Retries
    /\ Requests[1].resp.kind = "exception"
    /\ Requests[2].resp.kind = "nosuccess"
    /\ Requests[3].resp = [kind |-> "ok", lowest |-> Absent, median |-> Field(PriceA)]
    /\ price = PriceA

\* C2: when every attempt of a get_price call failed, the call returns
\* "No price listed" after Retries requests, no call issues more than
\* Retries requests, and no exception leaves get_price (the handler is
\* never in its except clause with a lookup under way).
C2_ExhaustedGivesSentinel ==
    /\ Len(Requests) <= Retries
    /\ (pc = "record" /\ \A j \in 1..Len(Requests) : FailedReply(Requests[j].resp))
        => price = NoPrice /\ Len(Requests) = Retries
    /\ pc \in {"except", "done"} => trace = <<>>

\* get_price returned the sentinel after a timeout, a malformed body and a
\* non-200 status
C2_Witness ==
    /\ pc = "record"
    /\ Len(Requests) = Retries
    /\ Requests[1].resp.kind = "exception"
    /\ Requests[2].resp.kind = "malformed"
    /\ Requests[3].resp.kind = "non200"
    /\ price = NoPrice

\* C3: within one get_price call every request but the last is followed by
\* a backoff sleep before the next request.
C3_BackoffBetweenRequests ==
    \A j \in 1..(Len(trace) - 1) :
        trace[j].ev = "request" => trace[j + 1].ev = "sleep"

(***************************************************************************)
(* Properties of the batch                                                 *)
(***************************************************************************)
\* position of the arrow in a result line
ArrowAt(line) == CHOOSE k \in 1..Len(line) : line[k] = "U+2192"

\* the name and the quote a result line shows
SourceOf(line) == SubSeq(line, 1, ArrowAt(line) - 2)

QuoteOf(line) == SubSeq(line, ArrowAt(line) + 2, Len(line))

\* the quote an export row shows: its last field, without the newline
RowQuote(row) ==
    LET tab == CHOOSE k \in 1..Len(row) :
                   row[k] = "\t" /\ \A j \in (k + 1)..Len(row) : row[j] # "\t"
    IN  SubSeq(row, tab + 1, Len(row) - 1)

\* the lines of the message with a character that is no whitespace
NonBlank(t) == {j \in 1..Len(t) : \E c \in 1..Len(t[j]) : t[j][c] \notin Whitespace}

\* the k-th of them
NthNonBlank(t, k) ==
    CHOOSE j \in NonBlank(t) : Cardinality({m \in NonBlank(t) : m < j}) = k - 1

\* C4: the results hold one entry per non-blank line handled so far, entry
\* k for the k-th non-blank line of the message, and when the loop has
\* finished there is an entry for every non-blank line, whatever the
\* lookups returned.
C4_OneResultPerLine ==
    /\ Len(results) <= Cardinality(NonBlank(text))
    /\ \A k \in 1..Len(results) :
           SourceOf(results[k]) = Strip(text[NthNonBlank(text, k)])
    /\ LoopFinished => Len(results) = Cardinality(NonBlank(text))

\* the loop finished a two-item batch whose first lookup failed on every
\* attempt and whose second returned a price
C4_Witness ==
    /\ LoopFinished
    /\ text = <<NameB, NameA>>
    /\ Len(results) = 2
    /\ QuoteOf(results[1]) = NoPrice
    /\ QuoteOf(results[2]) = PriceA

\* C5: success_count + fail_count = len(results) in every state, which is
\* the number of items handled when an iteration ends and when the loop
\* has finished; every step that adds a result adds one to exactly one of
\* the two counters, and no other step changes them.
C5_CountersMatchResults ==
    /\ [](/\ success_count + fail_count = Len(results)
          /\ pc = "pace" => Len(results) = i
          /\ LoopFinished => Len(results) = Len(items))
    /\ [][IF results' # results
          THEN /\ Len(results') = Len(results) + 1
               /\ \/ success_count' = success_count + 1 /\ fail_count' = fail_count
                  \/ success_count' = success_count /\ fail_count' = fail_count + 1
          ELSE success_count' = success_count /\ fail_count' = fail_count]_vars

\* the second iteration ended with one success and one failure counted
C5_Witness ==
    /\ pc = "pace"
    /\ i = 2
    /\ success_count = 1
    /\ fail_count = 1
    /\ QuoteOf(results[1]) = PriceBad

\* the quotes of the model that are currency amounts
IsAmount(q) == q \in {PriceA, PriceB}

\* the results whose quote is a currency amount, and the others
QuotedAmount == {k \in 1..Len(results) : IsAmount(QuoteOf(results[k]))}

QuotedOther == {k \in 1..Len(results) : ~IsAmount(QuoteOf(results[k]))}

\* the results whose quote is the sentinel, and the others
QuotedSentinel == {k \in 1..Len(results) : QuoteOf(results[k]) = NoPrice}

QuotedPrice == {k \in 1..Len(results) : QuoteOf(results[k]) # NoPrice}

\* C6 as stated: an item counts as a success exactly when its quote is a
\* currency amount that parses to a number, and as a failure otherwise.
C6_SuccessIffParsed ==
    /\ success_count = Cardinality(QuotedAmount)
    /\ fail_count = Cardinality(QuotedOther)

\* C6 as amended: an item counts as a success exactly when its quote is not
\* the sentinel "No price listed", whether or not the quote parses to a
\* number, and as a failure otherwise.
C6_SuccessIffNotSentinel ==
    /\ success_count = Cardinality(QuotedPrice)
    /\ fail_count = Cardinality(QuotedSentinel)

\* a quote that does not parse was counted as a success
C6_Witness ==
    /\ Len(results) = 1
    /\ QuoteOf(results[1]) = PriceBad
    /\ success_count = 1
    /\ fail_count = 0

\* the amounts, in centavos, of the quotes of the model
QuoteValue(q) ==
    CASE q = PriceA -> 123450
      [] q = PriceB -> 7500
      [] OTHER -> 0

RECURSIVE SumOfQuotes(_)
SumOfQuotes(lines) ==
    IF lines = <<>> THEN 0
    ELSE QuoteValue(QuoteOf(Head(lines))) + SumOfQuotes(Tail(lines))

\* C7: total_value is the sum of the amounts of the recorded quotes that
\* are currency amounts ("U+20B1 1,234.50" counts 1234.50), a sentinel or a
\* quote that does not parse adding nothing; every item, whatever its
\* quote, has its result line and its export row, both with the quote as
\* get_price returned it.
C7_TotalIsSumOfParsed ==
    /\ total_value = SumOfQuotes(results)
    /\ file # <<>> => Len(file) = Len(results) + 1
    /\ \A k \in 1..Len(results) : RowQuote(file[k + 1]) = QuoteOf(results[k])
    /\ pc = "progress" => QuoteOf(results[Len(results)]) = price

\* a finished batch of a quote of 1234.50 and a quote that does not parse
C7_Witness ==
    /\ LoopFinished
    /\ Len(results) = 2
    /\ QuoteOf(results[1]) = PriceA
    /\ QuoteOf(results[2]) = PriceBad
    /\ RowQuote(file[3]) = PriceBad
    /\ total_value = 123450

\* C8: the progress checkpoint has no effect on control flow: whether its
\* emission succeeds or fails, the batch goes on from the checkpoint to the
\* pacing delay and the items that remain.
C8_ProgressNoControlEffect == [][pc = "progress" => pc' = "pace"]_vars

\* the progress messages delivered so far
ProgressSent == SelectSeq(sent, LAMBDA m : m.type = "progress")

\* the items whose checkpoint has been passed
CheckpointsPassed == IF pc = "pace" THEN i ELSE i - 1

\* the checkpoints of items 1..k of a batch of n items
RECURSIVE ProgressExpected(_, _)
ProgressExpected(k, n) ==
    IF k <= 0 THEN <<>>
    ELSE ProgressExpected(k - 1, n)
            \o (IF k % 20 = 0 \/ k = n
                THEN <<[type |-> "progress", i |-> k, n |-> n]>> ELSE <<>>)

\* C9: the progress messages emitted so far are, in order and once each,
\* those of the items k handled so far with k a multiple of 20 or k = n,
\* each carrying k and n; the message of item k is emitted with the result
\* of item k recorded.
C9_ProgressEveryTwenty ==
    /\ ProgressSent = ProgressExpected(CheckpointsPassed, Len(items))
    /\ \A k \in 1..Len(ProgressSent) : ProgressSent[k].i <= Len(results)

\* a batch of 40 items emitted its checkpoints at 20 and, once, at 40
C9_Witness ==
    /\ LoopFinished
    /\ Len(items) = 2 * ProgressEvery
    /\ ProgressSent = <<[type |-> "progress", i |-> 20, n |-> 40],
                        [type |-> "progress", i |-> 40, n |-> 40]>>

\* the message has no line with a character that is no whitespace
AllBlank(t) == NonBlank(t) = {}

\* C10: once a message without a non-blank line has been looked at, the
\* handler is over or in its except clause, no request has been issued, no
\* export file exists, no result is held, and the channel has been given
\* the validation message or, if it refused that, at most the diagnostic.
C10_BlankInputRejected ==
    (AllBlank(text) /\ pc # "start") =>
        /\ pc \in {"done", "except"}
        /\ nrequests = 0
        /\ trace = <<>>
        /\ file = <<>>
        /\ results = <<>>
        /\ sent \in {<<>>, <<[type |-> "validation"]>>, <<[type |-> "error"]>>}
        /\ (pc = "done" /\ ~printed) => sent # <<>>

\* a message of two blank lines was answered with the validation message
C10_Witness ==
    /\ text = <<BlankLine, BlankLine>>
    /\ pc = "done"
    /\ sent = <<[type |-> "validation"]>>
    /\ nrequests = 0
    /\ file = <<>>

(***************************************************************************)
(* Properties of the order of the lookups                                  *)
(***************************************************************************)
\* C11: a request is issued only by the loop of the running handler, for
\* the item that follows the recorded ones, and the requests of one item
\* are not interrupted by those of another; a handler is called for the
\* next update only when the one before it has returned, with no lookup
\* under way.
C11_LookupsSerialized ==
    [][/\ nrequests' # nrequests =>
            /\ nrequests' = nrequests + 1 \/ (nrequests' = 0 /\ pc' = "start")
            /\ nrequests' = nrequests + 1 =>
                  /\ pc = "fetch"
                  /\ Len(results) = i - 1
                  /\ results' = results /\ i' = i /\ text' = text
                  /\ Len(trace') > Len(trace)
                  /\ \A k \in 1..Len(trace') :
                         trace'[k].ev = "request" =>
                             trace'[k].name = clean_item_name(items[Len(results) + 1])
       /\ pc' = "start" => pc = "done" /\ trace = <<>>
       /\ text' # text => pc = "done"]_vars

\* the handler of the second update, the first having been handled to the
\* end, has opened its file and issued its second request
C11_Witness ==
    /\ pending = <<>>
    /\ text = <<NameA>>
    /\ file = <<Header>>
    /\ pc = "fetch"
    /\ nrequests = 2

\* C12: while item i is looked up, recorded and reported, i - 1 pacing
\* delays have been slept, one behind each item before it, whatever the
\* quotes were; a request is issued only with as many pacing delays slept
\* as results are recorded; when the loop has finished the last item has
\* been followed by its delay too.
C12_OnePacePerItem ==
    /\ pc \in {"fetch", "record", "progress", "pace"} => paces = i - 1
    /\ pc = "fetch" => paces = Len(results)
    /\ LoopFinished => paces = Len(items) /\ paces = Len(results)
    /\ paces <= Len(results)

\* the second item is being looked up after a first item without a price
\* and one pacing delay
C12_Witness ==
    /\ pc = "fetch"
    /\ i = 2
    /\ QuoteOf(results[1]) = NoPrice
    /\ fail_count = 1
    /\ paces = 1
    /\ nrequests = Retries + 1

(***************************************************************************)
(* Termination                                                             *)
(***************************************************************************)
\* how far the handler is from its end: the stage, the items left, the
\* steps left in the item, the characters of the result text left to send
StageRank ==
    CASE pc = "start" -> 9
      [] pc = "open" -> 8
      [] pc \in {"fetch", "record", "progress", "pace"} -> 7
      [] pc = "delete" -> 6
      [] pc = "chunks" -> 5
      [] pc = "summary" -> 4
      [] pc = "document" -> 3
      [] pc = "except" -> 2
      [] pc = "done" -> 1

StepRank ==
    CASE pc = "fetch" -> 4 + Retries - attempt
      [] pc = "record" -> 3
      [] pc = "progress" -> 2
      [] pc = "pace" -> 1
      [] OTHER -> 0

CharsLeft ==
    LET total == Len(Join(<<"\n">>, results))
    IN  IF pc = "chunks" /\ start_idx < total THEN total - start_idx ELSE 0

Measure == <<StageRank, Len(items) + 1 - i, StepRank, CharsLeft>>

\* m comes before n in the lexicographic order
LexLess(m, n) ==
    \E k \in 1..Len(m) : m[k] < n[k] /\ \A j \in 1..(k - 1) : m[j] = n[j]

\* the handler is at a statement it can execute: every action is guarded
\* by its position alone, and the loop body reads items[i]
AtStatement ==
    /\ pc \in {"start", "open", "fetch", "record", "progress", "pace", "delete",
               "chunks", "summary", "document", "except"}
    /\ pc \in {"fetch", "record", "progress", "pace"} => i \in 1..Len(items)

\* C13: the handler runs to its end: every step brings it nearer (the
\* measure, a tuple of naturals in lexicographic order, decreases, so no
\* run has infinitely many steps, each request returning or raising), and
\* until the end it is at a statement it can execute; the requests issued
\* are at most Retries for the item under way and Retries for each item
\* recorded, n * Retries at most.
C13_TerminatesWithinBudget ==
    /\ [][LexLess(Measure', Measure)]_vars
    /\ [](/\ \A k \in 1..Len(Measure) : Measure[k] >= 0
          /\ pc = "done" \/ AtStatement
          /\ Len(Requests) <= Retries
          /\ nrequests <= Retries * Len(results) + Len(Requests)
          /\ nrequests <= Retries * Len(items))

\* a batch of two items ended with 2 * Retries requests issued
C13_Witness ==
    /\ pc = "done"
    /\ Len(items) = 2
    /\ Len(results) = 2
    /\ nrequests = 2 * Retries
    /\ sent[Len(sent)].type = "document"

(***************************************************************************)
(* Properties of clean_item_name                                           *)
(***************************************************************************)
\* the longest name enumerated
MaxNameLen == 3

\* a letter, a space, the trademark sign and the star of the table, the em
\* dash of the table, and the small em dash, whose compatibility mapping
\* is the em dash
NameChars == {"A", " ", "U+2122", "U+2605", "U+2014", "U+FE58"}

Names == UNION {[1..n -> NameChars] : n \in 1..MaxNameLen}

\* a message of one line, the line any of the names
InitNames ==
    /\ text \in {<<n>> : n \in Names}
    /\ pc = "start"
    /\ items = <<>>
    /\ i = 0
    /\ attempt = 1
    /\ trace = <<>>
    /\ price = <<>>
    /\ results = <<>>
    /\ success_count = 0
    /\ fail_count = 0
    /\ total_value = 0
    /\ file = <<>>
    /\ start_idx = 0
    /\ sent = <<>>
    /\ nrequests = 0
    /\ printed = FALSE
    /\ paces = 0
    /\ pending = <<>>

SpecNames == InitNames /\ [][Next]_vars

\* C14: clean_item_name is idempotent: the name a lookup is made under,
\* which is clean_item_name of the item, is left as it is by
\* clean_item_name, whatever the item (a character whose compatibility
\* normalization is a character of the table, a marker next to a space)
C14_CleanIdempotent ==
    \A k \in 1..Len(trace) :
        trace[k].ev = "request" =>
            clean_item_name(trace[k].name) = trace[k].name

(***************************************************************************)
(* Properties of the name a lookup is made under                           *)
(***************************************************************************)
\* the decorative markers: trademark sign, registered sign, star
Markers == {"U+2122", "U+00AE", "U+2605"}

HasMarker(s) == \E k \in 1..Len(s) : s[k] \in Markers

\* the item under way has a marker and get_price has been called for it
MarkedItemRequested ==
    /\ pc \in {"fetch", "record"}
    /\ Requests # <<>>
    /\ HasMarker(items[i])

\* C15 as stated: the markers of an item pass through clean_item_name
\* unchanged and the first lookup of the item is made under the precise
\* name, markers included.
C15_PreciseNameFirst ==
    MarkedItemRequested =>
        /\ HasMarker(clean_item_name(items[i]))
        /\ Requests[1].name = items[i]

\* C15, amended: clean_item_name removes the markers, and every lookup of
\* an item with markers, the first as well as each retry, is made under
\* the name without them; the precise name is never requested.
C15_StrippedNameOnly ==
    MarkedItemRequested =>
        \A k \in 1..Len(Requests) :
            /\ ~HasMarker(Requests[k].name)
            /\ Requests[k].name # items[i]
            /\ Requests[k].name = clean_item_name(items[i])
            /\ Requests[k].name =
                   Strip(SelectSeq(items[i], LAMBDA c : c \notin Markers))

\* the star-and-trademark item was looked up Retries times, each time
\* under "M9"
C15_Witness ==
    /\ pc = "record"
    /\ items[i] = Strip(NameB)
    /\ Len(Requests) = Retries
    /\ \A k \in 1..Retries : Requests[k].name = <<"M", "9">>
    /\ price = NoPrice

\* get_price has returned for an item with markers, and a request of the
\* call, made under the name without the markers, was answered with a price
StrippedNamePriced ==
    /\ pc = "record"
    /\ HasMarker(items[i])
    /\ \E k \in 1..Len(Requests) :
           /\ ~HasMarker(Requests[k].name)
           /\ PricedReply(Requests[k].resp)

\* C16: for an item with markers, no request is made under the precise
\* name, so an endpoint that rejects the precise name is never asked for
\* it; when the endpoint answers the name without the markers with a
\* price, get_price returns a price of that answer, and the result line
\* and the export row of the item carry that price, not the sentinel.
C16_StrippedNamePriceRecorded ==
    /\ [](StrippedNamePriced =>
            /\ \A k \in 1..Len(Requests) : Requests[k].name # items[i]
            /\ PricedReply(Requests[Len(Requests)].resp)
            /\ price \in PricesIn(Requests[Len(Requests)].resp)
            /\ price # NoPrice)
    /\ [][StrippedNamePriced =>
            /\ Len(results') = i
            /\ SourceOf(results'[i]) = items[i]
            /\ QuoteOf(results'[i]) = price
            /\ QuoteOf(results'[i]) # NoPrice
            /\ RowQuote(file'[Len(file')]) = price]_vars

\* the star-and-trademark item was answered with a failure and then, under
\* "M9", with the median price, which is its recorded quote
C16_Witness ==
    /\ pc = "progress"
    /\ text = <<NameB>>
    /\ nrequests = 2
    /\ results = <<ResultLine(Strip(NameB), PriceA)>>
    /\ success_count = 1

(***************************************************************************)
(* Cancellation of the handler                                             *)
(***************************************************************************)
\* the handler as it would be if get_price awaited its request
AtAwait_InRequest ==
    \/ pc \in {"start", "fetch", "delete", "summary", "document", "except"}
    \/ pc = "progress" /\ ProgressDue(i, Len(items))
    \/ pc = "chunks" /\ start_idx < Len(Join(<<"\n">>, results))

\* the awaits of scrape_items (lines 82, 89, 132, 138, 145, 158, 161, 165):
\* the coroutine yields to the event loop there and nowhere else;
\* requests.get and time.sleep block
AtAwait ==
    \/ pc \in {"start", "delete", "summary", "document", "except"}
    \/ pc = "progress" /\ ProgressDue(i, Len(items))
    \/ pc = "chunks" /\ start_idx < Len(Join(<<"\n">>, results))

\* the task running scrape_items is cancelled: CancelledError is raised at
\* the await the coroutine is suspended at.  It is no Exception, so the
\* except clauses of lines 163 and 167 let it through and the coroutine
\* ends there
Cancel ==
    /\ AtAwait
    /\ pc' = "cancelled"
    /\ UNCHANGED <<text, items, i, fetch, batch, start_idx, sent, printed,
                   pending, paces>>

NextCancel == Next \/ Cancel

SpecCancel == Init /\ [][NextCancel]_vars

\* C17 as stated: a cancelled batch hands the caller the results
\* accumulated so far together with a cancellation indicator.
C17_CancelReturnsResults ==
    pc = "cancelled" =>
        \E k \in 1..Len(sent) :
            /\ sent[k].type = "cancelled"
            /\ sent[k].results = results

\* what of the batch has reached the channel
Delivered(type) == \E k \in 1..Len(sent) : sent[k].type = type

\* C17, amended: a cancellation takes effect at an await of the handler,
\* never inside the retry loop of an item; the batch stops there, no
\* further request is made, and nothing is handed over: when the loop was
\* still running, neither the result lines held so far, nor the summary,
\* nor the export document reach the channel, and no indicator does.
C17_CancelDeliversNothing ==
    /\ [](pc = "cancelled" =>
            /\ trace = <<>> /\ attempt = 1
            /\ ~Delivered("cancelled")
            /\ ~LoopFinished =>
                   /\ ~Delivered("chunk")
                   /\ ~Delivered("summary")
                   /\ ~Delivered("document"))
    /\ [][/\ pc' = "cancelled" =>
               /\ sent' = sent
               /\ results' = results
               /\ nrequests' = nrequests
          /\ pc = "cancelled" => pc' = "cancelled"]_vars

\* the batch of 21 items was cancelled at the progress message of item 20,
\* with 20 results held and none delivered
C17_Witness ==
    /\ pc = "cancelled"
    /\ Len(items) = ProgressEvery + 1
    /\ Len(results) = ProgressEvery
    /\ sent = <<[type |-> "loading", n |-> ProgressEvery + 1]>>

(***************************************************************************)
(* Properties of the price taken from a reply                              *)
(***************************************************************************)
\* the last reply of the current get_price call
LastReply == Requests[Len(Requests)].resp

\* get_price has returned on a 200 reply with success true
ReturnedOnSuccess ==
    pc = "record" /\ Requests # <<>> /\ LastReply.kind = "ok"

\* C18: on a 200 reply with success true get_price returns lowest_price
\* when the reply has one, else median_price when the reply has one, else
\* "No price listed" (a field with an empty value counts as none); such a
\* reply is the last request of the call also when it has neither field,
\* and the item is then counted as a failure with the sentinel as its quote.
C18_LowestThenMedianThenSentinel ==
    /\ [](pc \in {"fetch", "record"} =>
            \A k \in 1..Len(Requests) :
                Requests[k].resp.kind = "ok" => k = Len(Requests) /\ pc = "record")
    /\ [](ReturnedOnSuccess =>
            /\ Truthy(LastReply.lowest) => price = LastReply.lowest.val
            /\ (~Truthy(LastReply.lowest) /\ Truthy(LastReply.median)) =>
                   price = LastReply.median.val
            /\ (~Truthy(LastReply.lowest) /\ ~Truthy(LastReply.median)) =>
                   price = NoPrice)
    /\ [][(ReturnedOnSuccess /\ ~PricedReply(LastReply)) =>
            /\ fail_count' = fail_count + 1
            /\ success_count' = success_count
            /\ total_value' = total_value
            /\ QuoteOf(results'[Len(results')]) = NoPrice
            /\ nrequests' = nrequests]_vars

\* one request, answered 200 with success true and no price: the item is
\* a failure with the sentinel as its quote
C18_Witness ==
    /\ pc = "progress"
    /\ text = <<NameA>>
    /\ nrequests = 1
    /\ results = <<ResultLine(NameA, NoPrice)>>
    /\ fail_count = 1
    /\ success_count = 0

(***************************************************************************)
(* Properties of the except clause and of the delivery                     *)
(***************************************************************************)
\* an exception has reached the except clause of scrape_items
Errored ==
    \/ pc = "except"
    \/ pc = "done" /\ (printed \/ Delivered("error"))

\* the messages that deliver the batch
DeliveryTypes == {"chunk", "summary", "document"}

DeliveryRank(type) ==
    CASE type = "chunk" -> 1
      [] type = "summary" -> 2
      [] type = "document" -> 3
      [] OTHER -> 0

\* the text of the chunk messages of s, put together
RECURSIVE ChunkText(_)
ChunkText(s) ==
    IF s = <<>> THEN <<>>
    ELSE (IF Head(s).type = "chunk" THEN Head(s).body ELSE <<>>)
             \o ChunkText(Tail(s))

\* C19: an exception raised while the batch runs is taken by the except
\* clause of scrape_items, which hands the diagnostic to the channel (and
\* prints it if the channel refuses that too) and ends the handler; from
\* then on no request is made and no item recorded, and when the loop had
\* not finished, no result line, summary or export document is delivered.
\* Result lines, summary and export document are delivered only once every
\* item has been recorded, the summary after all the result lines and the
\* document after the summary.
C19_ErrorCaughtDeliveryLast ==
    /\ [][/\ pc' = "except" => pc # "except" /\ sent' = sent
          /\ pc = "except" =>
                /\ pc' = "done"
                /\ \/ sent' = Append(sent, [type |-> "error"]) /\ printed' = printed
                   \/ sent' = sent /\ printed'
          /\ Errored =>
                /\ nrequests' = nrequests
                /\ results' = results
                /\ i' = i
                /\ Errored']_vars
    /\ []((Errored /\ ~LoopFinished) =>
            /\ ~Delivered("chunk")
            /\ ~Delivered("summary")
            /\ ~Delivered("document"))
    /\ [](\A k \in 1..Len(sent) :
            sent[k].type \in DeliveryTypes =>
                /\ LoopFinished
                /\ Len(results) = Len(items)
                /\ \A j \in 1..(k - 1) :
                       DeliveryRank(sent[j].type) <= DeliveryRank(sent[k].type)
                /\ sent[k].type = "summary" =>
                       ChunkText(sent) = Join(<<"\n">>, results)
                /\ sent[k].type = "document" => Delivered("summary"))

\* the progress message of item 20 of 21 raised: the diagnostic was sent,
\* item 21 was never looked up and nothing of the batch was delivered
C19_Witness ==
    /\ pc = "done"
    /\ Len(items) = ProgressEvery + 1
    /\ Len(results) = ProgressEvery
    /\ nrequests = ProgressEvery
    /\ sent = <<[type |-> "loading", n |-> ProgressEvery + 1], [type |-> "error"]>>

(***************************************************************************)
(* Properties of the export file                                           *)
(***************************************************************************)
\* the rows of the first n items of this call, as results holds them
ExpectedRows(n) ==
    [k \in 1..n |-> Row(items[k], clean_item_name(items[k]), QuoteOf(results[k]))]

\* C20: from the opening of the export file to the sending of it, the file
\* holds the header and then one row for each result of this call, in
\* order, row k made of item k, its cleaned name and the quote of result
\* k; at the end of iteration i that is i rows.  The document that is sent
\* holds the header and the rows of all the items of this call and nothing
\* else, also when a call before it wrote a file of the same name.
C20_ExportHoldsThisRun ==
    /\ pc \in {"fetch", "record", "progress", "pace", "delete", "chunks",
               "summary", "document"} =>
           /\ file = <<Header>> \o ExpectedRows(Len(results))
           /\ \A k \in 1..Len(results) : SourceOf(results[k]) = items[k]
    /\ pc \in {"progress", "pace"} =>
           /\ Len(results) = i
           /\ Len(file) = i + 1
           /\ RowQuote(file[i + 1]) = QuoteOf(results[i])
    /\ \A k \in 1..Len(sent) :
           sent[k].type = "document" =>
               /\ Len(results) = Len(items)
               /\ sent[k].rows = <<Header>> \o ExpectedRows(Len(items))

\* the second message, of one line, was answered with a document of the
\* header and one row
C20_Witness ==
    /\ pending = <<>>
    /\ pc = "done"
    /\ text = <<NameA>>
    /\ sent # <<>>
    /\ sent[Len(sent)] =
           [type |-> "document", rows |-> <<Header, Row(NameA, NameA, PriceB)>>]

=============================================================================
